---- MODULE Spec2Model ----
(***************************************************************************)
(* Streaming completion pipeline of the Uru chatbot backend:               *)
(*   app/api/endpoints/chat.py          send_message, generate_response    *)
(*   app/adapters/openai_adapter.py     OpenAIAdapter                      *)
(*   app/adapters/factory.py            AdapterFactory                     *)
(*   app/db/repositories/message.py     MessageRepository                  *)
(*   app/db/repositories/conversation.py ConversationRepository            *)
(*                                                                         *)
(* One request is one coroutine; every `await` and every `yield` of the    *)
(* source ends a step, so that other requests and a reader of the Ledger   *)
(* can run in between.  The Ledger is the messages table and the           *)
(* conversations table; a row of messages has the columns that             *)
(* MessageRepository.create sets (migrations 001/002, test_basic.py), a    *)
(* conversation the columns of models/conversation.py.                     *)
(*                                                                         *)
(* Three callees are named by send_message and defined nowhere in the      *)
(* sources at hand: ConversationRepository.update_stats (modelled from the *)
(* Ledger.updateAggregates interface), User.can_create_conversations (a    *)
(* permission flag of the caller) and a generate_stream that takes the     *)
(* keyword `model` (OpenAIAdapter names it ai_model).  For the last, the   *)
(* call either raises before the adapter's try block is entered            *)
(* (OpenRaises) or the iteration of OpenAIAdapter.generate_stream runs     *)
(* (OpenStream); both are kept.                                            *)
(*                                                                         *)
(* Specifications:                                                         *)
(*   Spec          the pipeline, MaxRequests requests at once; the Ledger's *)
(*                 own calls do not fail                                   *)
(*   DeadlineSpec  one request, and an upstream that can fall silent       *)
(*   FailSpec      one request, and Ledger calls that can raise            *)
(*   RegistrySpec  one request, and register_adapter called at any time    *)
(*   RepoSpec      the repositories called directly                        *)
(*   SseSpec       one run of the generator of SSEResponse                 *)
(*   FnSpec        the pure functions of the adapter, called once          *)
(*                                                                         *)
(* Money is counted in units of 10^-8 USD, so that the per-1000-token      *)
(* prices of the price table are integers per token.                       *)
(***************************************************************************)
EXTENDS Integers, Sequences, FiniteSets, TLC

\* ------------------------------------------------------------------ bounds
MaxRequests == 2      \* chat requests in one behaviour (all may overlap)
MaxChunks == 2        \* upstream chunks the provider sends in one stream
MaxTextLen == 16      \* characters of a generated text, and of a prompt
MaxRows == 3          \* rows the repositories are asked to create

\* --------------------------------------------------------------- constants
MAX_MESSAGE_LENGTH == 10000

Requests == 1..MaxRequests
NULL == "NULL"

\* The one stored conversation: id 1, owned by alice, created with zeroed
\* counters (ConversationRepository.create) and no system prompt.
ConvId == 1
Users == {"alice", "bob", "guest"}

\* The texts a request can carry.  chars = len(message), words =
\* len(message.split()); "long" stands for a text of 10001 characters and
\* "edge" for one of exactly 10000.
Texts ==
    { [text |-> "hi",   chars |-> 2,     words |-> 1],
      [text |-> "edge", chars |-> 10000, words |-> 3],
      [text |-> "long", chars |-> 10001, words |-> 3] }

AiModels == {"gpt-4o", "custom-model"}
Deltas == {"a", "b"}

\* total_tokens, completion_tokens before the provider reports any, and the
\* usage records a provider chunk can carry
NoUsage == [total_tokens |-> 0, completion_tokens |-> 0]
Usages == { [total_tokens |-> 140, completion_tokens |-> 40] }

VARIABLES
    adapters,           \* AdapterFactory._adapters: provider -> adapter class
    conversations,      \* conversations table: id -> row
    messages,           \* messages table, in id order
    pc,                 \* where each request's coroutine stands
    request,            \* the ChatRequest (and caller) of each request
    response,           \* the synchronous response: status code and detail
    content_chunks,     \* generate_stream: content_chunks
    usage,              \* generate_stream: total_tokens, completion_tokens
    nchunks,            \* upstream chunks received so far
    full_content,       \* generate_response: full_content
    assistant_message,  \* generate_response: assistant_message (its id)
    stats,              \* generate_response: stats
    events,             \* history: the (content, metadata) pairs the adapter yielded
    frames,             \* history: the frames handed to the transport
    wrote,              \* history: ids of the rows this request created
    disconnected,       \* the client went away while the stream was open
    overlap,            \* history: two requests have had their streams open at once
    aggregated,         \* history: the assistant row of the last aggregate update
    call,               \* one call of a pure function: its arguments and result
    sse                 \* one run of the generator SSEResponse.__call__ returns

vars == << adapters, conversations, messages, pc, request, response,
           content_chunks, usage, nchunks, full_content, assistant_message,
           stats, events, frames, wrote, disconnected, overlap,
           aggregated, call, sse >>

adapterVars == << content_chunks, usage, nchunks >>
ledgerVars == << conversations, messages >>

\* ------------------------------------------------------------ pure helpers

\* hashlib.sha256(content.encode()).hexdigest(): a digest, never the text
Sha256(content) == << "sha256", content >>

\* len(request.message.split()) * 1.3, stored in an Integer column
UserTokenEstimate(words) == (words * 13) \div 10

\* OpenAIAdapter.model_pricing, per token, in 10^-8 USD
model_pricing ==
    [ m \in {"gpt-4o", "gpt-4o-mini", "o1", "o1-mini", "gpt-4-turbo", "gpt-4", "gpt-3.5-turbo"} |->
        CASE m = "gpt-4o"        -> [input |-> 500,  output |-> 1500]
          [] m = "gpt-4o-mini"   -> [input |-> 15,   output |-> 60]
          [] m = "o1"            -> [input |-> 1500, output |-> 6000]
          [] m = "o1-mini"       -> [input |-> 300,  output |-> 1200]
          [] m = "gpt-4-turbo"   -> [input |-> 1000, output |-> 3000]
          [] m = "gpt-4"         -> [input |-> 3000, output |-> 6000]
          [] m = "gpt-3.5-turbo" -> [input |-> 150,  output |-> 200] ]

\* faulty variant of calculate_cost: the two rates are taken for each other
calculate_cost_RatesSwapped(ai_model, total_tokens, completion_tokens) ==
    IF ai_model \notin DOMAIN model_pricing
    THEN 0
    ELSE LET pricing == model_pricing[ai_model]
             input_tokens == total_tokens - completion_tokens
         IN  input_tokens * pricing.output + completion_tokens * pricing.input

\* OpenAIAdapter.calculate_cost
calculate_cost(ai_model, total_tokens, completion_tokens) ==
    IF ai_model \notin DOMAIN model_pricing
    THEN 0
    ELSE LET pricing == model_pricing[ai_model]
             input_tokens == total_tokens - completion_tokens
         IN  input_tokens * pricing.input + completion_tokens * pricing.output

RECURSIVE Join(_)
\* "".join(content_chunks)
Join(chunks) ==
    IF chunks = << >> THEN "" ELSE Head(chunks) \o Join(Tail(chunks))

RECURSIVE SumSeq(_)
SumSeq(s) ==
    IF s = << >> THEN 0 ELSE Head(s) + SumSeq(Tail(s))

RECURSIVE MaxSeq(_)
MaxSeq(s) ==
    IF s = << >> THEN 0
    ELSE LET m == MaxSeq(Tail(s)) IN IF Head(s) > m THEN Head(s) ELSE m

SelectConv(rows, c) == SelectSeq(rows, LAMBDA m : m.conversation_id = c)

Column(rows, f) == [ i \in 1..Len(rows) |-> rows[i][f] ]

\* User.can_create_conversations
CanCreateConversations(u) == u # "guest"

\* faulty variant of get_by_id: the owner is not looked at
get_by_id_AnyOwner(convs, conversation_id, user_id) ==
    { c \in DOMAIN convs : c = conversation_id }

\* ConversationRepository.get_by_id: the rows with that id and that owner
\* (none, or one)
get_by_id(convs, conversation_id, user_id) ==
    { c \in DOMAIN convs : c = conversation_id /\ convs[c].user_id = user_id }

\* AdapterFactory.get_adapter
get_adapter(provider) ==
    IF provider \in DOMAIN adapters THEN adapters[provider] ELSE NULL

\* The row MessageRepository.create builds.  The text itself is not among
\* the columns it sets: only its hash is.
NewMessage(rows, conversation_id, role, content, token_count, ai_model, cost_estimate, is_error, error_type) ==
    [ id              |-> Len(rows) + 1,
      conversation_id |-> conversation_id,
      role            |-> role,
      content         |-> NULL,
      content_hash    |-> Sha256(content),
      token_count     |-> token_count,
      ai_model        |-> ai_model,
      cost_estimate   |-> cost_estimate,
      is_error        |-> is_error,
      error_type      |-> error_type,
      created_at      |-> Len(rows) + 1 ]

\* faulty variant of get_conversation_stats: the count leaves out the rows
\* that are not assistant rows
get_conversation_stats_AssistantOnly(rows, conversation_id) ==
    LET mine == SelectConv(rows, conversation_id)
    IN  [ message_count   |-> Len(SelectSeq(mine, LAMBDA m : m.role = "assistant")),
          total_tokens    |-> SumSeq(Column(mine, "token_count")),
          total_cost      |-> SumSeq(Column(mine, "cost_estimate")),
          last_message_at |-> MaxSeq(Column(mine, "created_at")) ]

\* MessageRepository.get_conversation_stats
get_conversation_stats(rows, conversation_id) ==
    LET mine == SelectConv(rows, conversation_id)
    IN  [ message_count   |-> Len(mine),
          total_tokens    |-> SumSeq(Column(mine, "token_count")),
          total_cost      |-> SumSeq(Column(mine, "cost_estimate")),
          last_message_at |-> MaxSeq(Column(mine, "created_at")) ]

\* faulty variant of FinalUsage: the numbers of the provider are not used
FinalUsage_AlwaysEstimate(chunks, reported, prompt_chars) ==
    LET estimated_completion_tokens == Len(Join(chunks)) \div 4
        estimated_input_tokens == prompt_chars \div 4
    IN  [ total_tokens      |-> estimated_completion_tokens + estimated_input_tokens,
          completion_tokens |-> estimated_completion_tokens ]

\* faulty variant of FinalUsage: one token is counted for 8 characters
FinalUsage_EightChars(chunks, reported, prompt_chars) ==
    IF reported.total_tokens = 0
    THEN LET estimated_completion_tokens == Len(Join(chunks)) \div 8
             estimated_input_tokens == prompt_chars \div 8
         IN  [ total_tokens      |-> estimated_completion_tokens + estimated_input_tokens,
               completion_tokens |-> estimated_completion_tokens ]
    ELSE reported

\* the tokens the adapter reports in its Complete event
FinalUsage(chunks, reported, prompt_chars) ==
    IF reported.total_tokens = 0
    THEN LET estimated_completion_tokens == Len(Join(chunks)) \div 4
             estimated_input_tokens == prompt_chars \div 4
         IN  [ total_tokens      |-> estimated_completion_tokens + estimated_input_tokens,
               completion_tokens |-> estimated_completion_tokens ]
    ELSE reported

\* final_metadata of generate_stream
CompleteEvent(chunks, reported, prompt_chars, ai_model) ==
    LET u == FinalUsage(chunks, reported, prompt_chars)
    IN  [ content  |-> "",
          metadata |->
            [ type              |-> "complete",
              total_tokens      |-> u.total_tokens,
              completion_tokens |-> u.completion_tokens,
              cost_estimate     |-> calculate_cost(ai_model, u.total_tokens, u.completion_tokens),
              model_used        |-> ai_model,
              full_content      |-> Join(chunks) ] ]

\* the (content, metadata) pairs generate_stream yields
ContentEvent(content) ==
    [ content |-> content, metadata |-> [ type |-> "content", chunk |-> content ] ]

ErrorEvent(e, ai_model) ==
    [ content  |-> "Error: " \o e,
      metadata |-> [ type |-> "error", error |-> e, model_used |-> ai_model ] ]

ChunkFrame(content) == [ type |-> "chunk", content |-> content ]

CompleteFrame(message_id, cost) ==
    [ type |-> "complete", message_id |-> message_id, cost |-> cost ]

ErrorFrame(e) == [ type |-> "error", error |-> e ]

\* f"data: {json.dumps(payload)}\n\n": the lines of a frame before its
\* blank line, by field name, and the JSON object of the data line
Wire(payload) == [ lines |-> << "data" >>, data |-> payload ]

\* ---------------------------------------------------------------- initial
NoRequest == [ conversation_id |-> 0, user |-> NULL, message |-> NULL,
               chars |-> 0, words |-> 0, model |-> NULL ]

NoResponse == [ status_code |-> 0, detail |-> NULL ]

\* no pure function is being called
NoCall == [ fn |-> NULL ]

\* no SSEResponse is in use
NoSse == [ pc |-> "unused" ]

\* the state after start-up: the adapter registry as the class body of
\* AdapterFactory fills it, one conversation, no message, no request
PipelineInit ==
    /\ adapters = [ p \in {"openai"} |-> "OpenAIAdapter" ]
    /\ conversations = [ c \in {ConvId} |->
                           [ user_id         |-> "alice",
                             model           |-> "gpt-4o",
                             system_prompt   |-> NULL,
                             message_count   |-> 0,
                             total_tokens    |-> 0,
                             estimated_cost  |-> 0,
                             last_message_at |-> 0 ] ]
    /\ messages = << >>
    /\ pc = [ r \in Requests |-> "new" ]
    /\ request = [ r \in Requests |-> NoRequest ]
    /\ response = [ r \in Requests |-> NoResponse ]
    /\ content_chunks = [ r \in Requests |-> << >> ]
    /\ usage = [ r \in Requests |-> NoUsage ]
    /\ nchunks = [ r \in Requests |-> 0 ]
    /\ full_content = [ r \in Requests |-> "" ]
    /\ assistant_message = [ r \in Requests |-> 0 ]
    /\ stats = [ r \in Requests |-> NULL ]
    /\ events = [ r \in Requests |-> << >> ]
    /\ frames = [ r \in Requests |-> << >> ]
    /\ wrote = [ r \in Requests |-> << >> ]
    /\ disconnected = [ r \in Requests |-> FALSE ]
    /\ overlap = FALSE
    /\ aggregated = 0

Init ==
    /\ PipelineInit
    /\ call = NoCall
    /\ sse = NoSse

\* ---------------------------------------------------------------- actions

\* where a request stands while its stream is open: from the return of the
\* StreamingResponse to the end of generate_response
Streaming == { "responding", "iterating", "starved", "on_content",
               "on_complete", "read_stats", "update_stats", "yield_complete",
               "on_error", "yield_error" }


\* raise HTTPException(status_code=code, detail=detail): the synchronous
\* failure of send_message
Reject(r, code, detail) ==
    /\ pc' = [pc EXCEPT ![r] = "rejected"]
    /\ response' = [response EXCEPT ![r] = [ status_code |-> code, detail |-> detail ]]

\* faulty variant of Validate: a message of exactly the maximum length is
\* turned away
Validate_MaxExcluded(r) ==
    /\ pc[r] = "new"
    /\ \E user \in Users, conversation_id \in {ConvId, 9}, t \in Texts,
          model \in {NULL, "custom-model"} :
         /\ request' = [request EXCEPT ![r] =
                          [ conversation_id |-> conversation_id,
                            user            |-> user,
                            message         |-> t.text,
                            chars           |-> t.chars,
                            words           |-> t.words,
                            model           |-> model ]]
         /\ IF ~ CanCreateConversations(user)
            THEN Reject(r, 403, "Insufficient permissions to send messages")
            ELSE IF get_by_id(conversations, conversation_id, user) = {}
            THEN Reject(r, 404, "Conversation not found")
            ELSE IF t.chars >= MAX_MESSAGE_LENGTH
            THEN Reject(r, 400, "Message too long")
            ELSE IF get_adapter("openai") = NULL
            THEN Reject(r, 500, "AI adapter not available")
            ELSE /\ pc' = [pc EXCEPT ![r] = "key_check"]
                 /\ UNCHANGED response
    /\ UNCHANGED << adapters, call, sse, ledgerVars, adapterVars, full_content,
                    assistant_message, stats, events, frames, wrote,
                    disconnected, overlap, aggregated >>

\* send_message, up to the call of adapter.validate_api_key
Validate(r) ==
    /\ pc[r] = "new"
    /\ \E user \in Users, conversation_id \in {ConvId, 9}, t \in Texts,
          model \in {NULL, "custom-model"} :
         /\ request' = [request EXCEPT ![r] =
                          [ conversation_id |-> conversation_id,
                            user            |-> user,
                            message         |-> t.text,
                            chars           |-> t.chars,
                            words           |-> t.words,
                            model           |-> model ]]
         /\ IF ~ CanCreateConversations(user)
            THEN Reject(r, 403, "Insufficient permissions to send messages")
            ELSE IF get_by_id(conversations, conversation_id, user) = {}
            THEN Reject(r, 404, "Conversation not found")
            ELSE IF t.chars > MAX_MESSAGE_LENGTH
            THEN Reject(r, 400, "Message too long")
            ELSE IF get_adapter("openai") = NULL
            THEN Reject(r, 500, "AI adapter not available")
            ELSE /\ pc' = [pc EXCEPT ![r] = "key_check"]
                 /\ UNCHANGED response
    /\ UNCHANGED << adapters, call, sse, ledgerVars, adapterVars, full_content,
                    assistant_message, stats, events, frames, wrote,
                    disconnected, overlap, aggregated >>

\* faulty variant of ValidateKey: the user Message is written before the
\* answer on the API key is looked at, so a request with an invalid key
\* leaves a row behind
ValidateKey_WriteFirst(r) ==
    /\ pc[r] = "key_check"
    /\ \E key_valid \in BOOLEAN :
         IF ~ key_valid
         THEN /\ Reject(r, 400, "Invalid API key")
              /\ messages' = Append(messages,
                    NewMessage(messages, request[r].conversation_id, "user",
                               request[r].message,
                               UserTokenEstimate(request[r].words),
                               NULL, 0, FALSE, NULL))
         ELSE /\ pc' = [pc EXCEPT ![r] = "validated"]
              /\ UNCHANGED << response, messages >>
    /\ UNCHANGED << adapters, call, sse, conversations, request, adapterVars,
                    full_content, assistant_message, stats, events, frames,
                    wrote, disconnected, overlap, aggregated >>

\* key_validation = await adapter.validate_api_key(request.api_key);
\* key_valid is its "valid" entry for the key of the request
ValidateKey(r) ==
    /\ pc[r] = "key_check"
    /\ \E key_valid \in BOOLEAN :
         IF ~ key_valid
         THEN Reject(r, 400, "Invalid API key")
         ELSE /\ pc' = [pc EXCEPT ![r] = "validated"]
              /\ UNCHANGED response
    /\ UNCHANGED << adapters, call, sse, ledgerVars, request, adapterVars,
                    full_content, assistant_message, stats, events, frames,
                    wrote, disconnected, overlap, aggregated >>

\* faulty variant of CreateUserMessage: the stream is opened with the user
\* Message not yet committed
CreateUserMessage_NoCommit(r) ==
    /\ pc[r] = "validated"
    /\ pc' = [pc EXCEPT ![r] = "responding"]
    /\ response' = [response EXCEPT ![r] = [ status_code |-> 200, detail |-> "text/event-stream" ]]
    /\ overlap' = (overlap \/ \E q \in Requests \ {r} : pc[q] \in Streaming)
    /\ UNCHANGED << adapters, call, sse, ledgerVars, request, adapterVars, full_content,
                    assistant_message, stats, events, frames, wrote,
                    disconnected, aggregated >>

\* message_repo.create(role="user", ...) and the return of the
\* StreamingResponse: the row is committed, the stream is open, the body of
\* generate_response has not started.
CreateUserMessage(r) ==
    /\ pc[r] = "validated"
    /\ LET row == NewMessage(messages, request[r].conversation_id, "user",
                             request[r].message,
                             UserTokenEstimate(request[r].words),
                             NULL, 0, FALSE, NULL)
       IN  /\ messages' = Append(messages, row)
           /\ wrote' = [wrote EXCEPT ![r] = Append(@, row.id)]
    /\ pc' = [pc EXCEPT ![r] = "responding"]
    /\ response' = [response EXCEPT ![r] = [ status_code |-> 200, detail |-> "text/event-stream" ]]
    /\ overlap' = (overlap \/ \E q \in Requests \ {r} : pc[q] \in Streaming)
    /\ UNCHANGED << adapters, call, sse, conversations, request, adapterVars, full_content,
                    assistant_message, stats, events, frames, disconnected,
                    aggregated >>

\* The generator is finished or closed: its locals, and those of the
\* adapter's generator it was iterating, are gone.
Release(r) ==
    /\ pc' = [pc EXCEPT ![r] = "closed"]
    /\ content_chunks' = [content_chunks EXCEPT ![r] = << >>]
    /\ usage' = [usage EXCEPT ![r] = NoUsage]
    /\ nchunks' = [nchunks EXCEPT ![r] = 0]
    /\ full_content' = [full_content EXCEPT ![r] = ""]
    /\ stats' = [stats EXCEPT ![r] = NULL]

\* request.model or conversation.model
ModelOf(r) ==
    IF request[r].model # NULL THEN request[r].model
    ELSE conversations[request[r].conversation_id].model

\* sum(len(msg.get("content", "")) for msg in messages): the request's text
\* (the conversation has no system prompt)
PromptChars(r) == request[r].chars

LastEvent(r) == events[r][Len(events[r])]

\* generate_response starts: adapter.generate_stream(...) is called and its
\* first item is awaited; the provider call is accepted.
OpenStream(r) ==
    /\ pc[r] = "responding"
    /\ pc' = [pc EXCEPT ![r] = "iterating"]
    /\ UNCHANGED << adapters, call, sse, ledgerVars, request, response, adapterVars,
                    full_content, assistant_message, stats, events, frames,
                    wrote, disconnected,
                    overlap, aggregated >>

\* The call raises instead: nothing of generate_stream's own try block has
\* been entered (the arguments do not bind, or AsyncOpenAI(...) raises), so
\* the exception reaches the except clause of generate_response, which
\* yields an error frame.
OpenRaises(r) ==
    /\ pc[r] = "responding"
    /\ frames' = [frames EXCEPT ![r] = Append(@, ErrorFrame("exception"))]
    /\ Release(r)
    /\ UNCHANGED << adapters, call, sse, ledgerVars, request, response, assistant_message,
                    events, wrote, disconnected,
                    overlap, aggregated >>

\* one upstream chunk arrives.  A chunk with a delta is yielded as a content
\* event; a chunk without one (the provider's closing usage chunk) only sets
\* total_tokens and completion_tokens.
AdapterChunk(r) ==
    /\ pc[r] = "iterating"
    /\ nchunks[r] < MaxChunks
    /\ nchunks' = [nchunks EXCEPT ![r] = @ + 1]
    /\ \/ \E d \in Deltas :
            /\ content_chunks' = [content_chunks EXCEPT ![r] = Append(@, d)]
            /\ events' = [events EXCEPT ![r] = Append(@, ContentEvent(d))]
            /\ pc' = [pc EXCEPT ![r] = "on_content"]
            /\ UNCHANGED usage
       \/ \E u \in Usages :
            /\ usage' = [usage EXCEPT ![r] = u]
            /\ UNCHANGED << content_chunks, events, pc >>
    /\ UNCHANGED << adapters, call, sse, ledgerVars, request, response, full_content,
                    assistant_message, stats, frames, wrote, disconnected,
                    overlap, aggregated >>

\* the upstream stream is exhausted: final_metadata is yielded
AdapterEnd(r) ==
    /\ pc[r] = "iterating"
    /\ events' = [events EXCEPT ![r] =
                    Append(@, CompleteEvent(content_chunks[r], usage[r],
                                            PromptChars(r), ModelOf(r)))]
    /\ pc' = [pc EXCEPT ![r] = "on_complete"]
    /\ UNCHANGED << adapters, call, sse, ledgerVars, request, response, adapterVars,
                    full_content, assistant_message, stats, frames, wrote,
                    disconnected,
                    overlap, aggregated >>

\* the provider call or the iteration raises inside the try block:
\* error_metadata is yielded
AdapterFail(r) ==
    /\ pc[r] = "iterating"
    /\ events' = [events EXCEPT ![r] = Append(@, ErrorEvent("upstream failure", ModelOf(r)))]
    /\ pc' = [pc EXCEPT ![r] = "on_error"]
    /\ UNCHANGED << adapters, call, sse, ledgerVars, request, response, adapterVars,
                    full_content, assistant_message, stats, frames, wrote,
                    disconnected,
                    overlap, aggregated >>

\* faulty variant of OnContent: the chunk frame is held back
OnContent_Deferred(r) ==
    /\ pc[r] = "on_content"
    /\ full_content' = [full_content EXCEPT ![r] = @ \o LastEvent(r).content]
    /\ pc' = [pc EXCEPT ![r] = "iterating"]
    /\ UNCHANGED << adapters, call, sse, ledgerVars, request, response,
                    adapterVars, assistant_message, stats, events, frames,
                    wrote, disconnected, overlap, aggregated >>

\* faulty variant of OnContent: the chunk frame is handed over twice
OnContent_Twice(r) ==
    /\ pc[r] = "on_content"
    /\ full_content' = [full_content EXCEPT ![r] = @ \o LastEvent(r).content]
    /\ frames' = [frames EXCEPT ![r] =
                    Append(Append(@, ChunkFrame(LastEvent(r).content)),
                           ChunkFrame(LastEvent(r).content))]
    /\ pc' = [pc EXCEPT ![r] = "iterating"]
    /\ UNCHANGED << adapters, call, sse, ledgerVars, request, response, adapterVars,
                    assistant_message, stats, events, wrote, disconnected,
                    overlap, aggregated >>

\* metadata["type"] == "content"
OnContent(r) ==
    /\ pc[r] = "on_content"
    /\ full_content' = [full_content EXCEPT ![r] = @ \o LastEvent(r).content]
    /\ frames' = [frames EXCEPT ![r] = Append(@, ChunkFrame(LastEvent(r).content))]
    /\ pc' = [pc EXCEPT ![r] = "iterating"]
    /\ UNCHANGED << adapters, call, sse, ledgerVars, request, response, adapterVars,
                    assistant_message, stats, events, wrote, disconnected,
                    overlap, aggregated >>

\* metadata["type"] == "complete": message_repo.create(role="assistant", ...)
CreateAssistantMessage(r) ==
    /\ pc[r] = "on_complete"
    /\ LET metadata == LastEvent(r).metadata
           row == NewMessage(messages, request[r].conversation_id, "assistant",
                             metadata.full_content, metadata.total_tokens,
                             metadata.model_used, metadata.cost_estimate,
                             FALSE, NULL)
       IN  /\ messages' = Append(messages, row)
           /\ wrote' = [wrote EXCEPT ![r] = Append(@, row.id)]
           /\ assistant_message' = [assistant_message EXCEPT ![r] = row.id]
    /\ pc' = [pc EXCEPT ![r] = "read_stats"]
    /\ UNCHANGED << adapters, call, sse, conversations, request, response, adapterVars,
                    full_content, stats, events, frames, disconnected,
                    overlap, aggregated >>

\* stats = await message_repo.get_conversation_stats(conversation.id)
GetConversationStats(r) ==
    /\ pc[r] = "read_stats"
    /\ stats' = [stats EXCEPT ![r] =
                   get_conversation_stats(messages, request[r].conversation_id)]
    /\ pc' = [pc EXCEPT ![r] = "update_stats"]
    /\ UNCHANGED << adapters, call, sse, ledgerVars, request, response, adapterVars,
                    full_content, assistant_message, events, frames, wrote,
                    disconnected,
                    overlap, aggregated >>

\* faulty variant of update_stats: the numbers are added to the counters
update_stats_Accumulate(convs, conversation_id, message_count, total_tokens, estimated_cost, last_message_at) ==
    [convs EXCEPT ![conversation_id] =
        [@ EXCEPT !.message_count   = @ + message_count,
                  !.total_tokens    = @ + total_tokens,
                  !.estimated_cost  = @ + estimated_cost,
                  !.last_message_at = last_message_at]]

\* ConversationRepository.update_stats: Ledger.updateAggregates
update_stats(convs, conversation_id, message_count, total_tokens, estimated_cost, last_message_at) ==
    [convs EXCEPT ![conversation_id] =
        [@ EXCEPT !.message_count   = message_count,
                  !.total_tokens    = total_tokens,
                  !.estimated_cost  = estimated_cost,
                  !.last_message_at = last_message_at]]

\* await conversation_repo.update_stats(conversation.id, ...)
UpdateStats(r) ==
    /\ pc[r] = "update_stats"
    /\ conversations' = update_stats(conversations, request[r].conversation_id,
                                     stats[r].message_count, stats[r].total_tokens,
                                     stats[r].total_cost, stats[r].last_message_at)
    /\ aggregated' = assistant_message[r]
    /\ pc' = [pc EXCEPT ![r] = "yield_complete"]
    /\ UNCHANGED << adapters, call, sse, messages, request, response, adapterVars,
                    full_content, assistant_message, stats, events, frames,
                    wrote, disconnected,
                    overlap >>

\* yield the complete frame; the iteration then ends
YieldComplete(r) ==
    /\ pc[r] = "yield_complete"
    /\ frames' = [frames EXCEPT ![r] =
                    Append(@, CompleteFrame(assistant_message[r],
                                            LastEvent(r).metadata.cost_estimate))]
    /\ Release(r)
    /\ UNCHANGED << adapters, call, sse, ledgerVars, request, response, assistant_message,
                    events, wrote, disconnected,
                    overlap, aggregated >>

\* faulty variant of CreateErrorMessage: the row is written without the
\* error flag
CreateErrorMessage_Unflagged(r) ==
    /\ pc[r] = "on_error"
    /\ LET metadata == LastEvent(r).metadata
           row == NewMessage(messages, request[r].conversation_id, "assistant",
                             "Error: " \o metadata.error, 0, NULL, 0,
                             FALSE, NULL)
       IN  /\ messages' = Append(messages, row)
           /\ wrote' = [wrote EXCEPT ![r] = Append(@, row.id)]
    /\ pc' = [pc EXCEPT ![r] = "yield_error"]
    /\ UNCHANGED << adapters, call, sse, conversations, request, response, adapterVars,
                    full_content, assistant_message, stats, events, frames,
                    disconnected, overlap, aggregated >>

\* faulty variant of CreateErrorMessage: the error path refreshes the
\* aggregates as the success path does
CreateErrorMessage_Counting(r) ==
    /\ pc[r] = "on_error"
    /\ LET metadata == LastEvent(r).metadata
           row == NewMessage(messages, request[r].conversation_id, "assistant",
                             "Error: " \o metadata.error, 0, NULL, 0,
                             TRUE, "api_error")
           st == get_conversation_stats(Append(messages, row), request[r].conversation_id)
       IN  /\ messages' = Append(messages, row)
           /\ wrote' = [wrote EXCEPT ![r] = Append(@, row.id)]
           /\ conversations' = update_stats(conversations, request[r].conversation_id,
                                            st.message_count, st.total_tokens,
                                            st.total_cost, st.last_message_at)
    /\ pc' = [pc EXCEPT ![r] = "yield_error"]
    /\ UNCHANGED << adapters, call, sse, request, response, adapterVars, full_content,
                    assistant_message, stats, events, frames, disconnected,
                    overlap, aggregated >>

\* metadata["type"] == "error": message_repo.create(is_error=True, ...)
CreateErrorMessage(r) ==
    /\ pc[r] = "on_error"
    /\ LET metadata == LastEvent(r).metadata
           row == NewMessage(messages, request[r].conversation_id, "assistant",
                             "Error: " \o metadata.error, 0, NULL, 0,
                             TRUE, "api_error")
       IN  /\ messages' = Append(messages, row)
           /\ wrote' = [wrote EXCEPT ![r] = Append(@, row.id)]
    /\ pc' = [pc EXCEPT ![r] = "yield_error"]
    /\ UNCHANGED << adapters, call, sse, conversations, request, response, adapterVars,
                    full_content, assistant_message, stats, events, frames,
                    disconnected,
                    overlap, aggregated >>

\* faulty variant of YieldError: after a failed generation the adapter is
\* invoked again
YieldError_Retry(r) ==
    /\ pc[r] = "yield_error"
    /\ pc' = [pc EXCEPT ![r] = "responding"]
    /\ UNCHANGED << adapters, call, sse, ledgerVars, request, response,
                    adapterVars, full_content, assistant_message, stats,
                    events, frames, wrote, disconnected, overlap, aggregated >>

\* yield the error frame; the iteration then ends
YieldError(r) ==
    /\ pc[r] = "yield_error"
    /\ frames' = [frames EXCEPT ![r] = Append(@, ErrorFrame(LastEvent(r).metadata.error))]
    /\ Release(r)
    /\ UNCHANGED << adapters, call, sse, ledgerVars, request, response, assistant_message,
                    events, wrote, disconnected,
                    overlap, aggregated >>

\* The client goes away while the stream is open.  The response task is
\* cancelled and the generator is closed where it stands: CancelledError and
\* GeneratorExit are not Exception, so no clause of generate_response runs.
Disconnect(r) ==
    /\ pc[r] \in Streaming
    /\ disconnected' = [disconnected EXCEPT ![r] = TRUE]
    /\ Release(r)
    /\ UNCHANGED << adapters, call, sse, ledgerVars, request, response, assistant_message,
                    events, frames, wrote,
                    overlap, aggregated >>

\* the adapters a registration can bring
Adapters == {"OpenAIAdapter", "OtherAdapter"}

\* AdapterFactory.register_adapter: cls._adapters[provider] = adapter
RegisterAdapter(provider, adapter) ==
    /\ adapters' = [ p \in DOMAIN adapters \cup {provider} |->
                       IF p = provider THEN adapter ELSE adapters[p] ]
    /\ UNCHANGED << call, sse, ledgerVars, pc, request, response, adapterVars,
                    full_content, assistant_message, stats, events, frames,
                    wrote, disconnected, overlap, aggregated >>

Next ==
    \/ \E r \in Requests : Validate(r)
    \/ \E r \in Requests : ValidateKey(r)
    \/ \E r \in Requests : CreateUserMessage(r)
    \/ \E r \in Requests : OpenStream(r)
    \/ \E r \in Requests : OpenRaises(r)
    \/ \E r \in Requests : AdapterChunk(r)
    \/ \E r \in Requests : AdapterEnd(r)
    \/ \E r \in Requests : AdapterFail(r)
    \/ \E r \in Requests : OnContent(r)
    \/ \E r \in Requests : CreateAssistantMessage(r)
    \/ \E r \in Requests : GetConversationStats(r)
    \/ \E r \in Requests : UpdateStats(r)
    \/ \E r \in Requests : YieldComplete(r)
    \/ \E r \in Requests : CreateErrorMessage(r)
    \/ \E r \in Requests : YieldError(r)
    \/ \E r \in Requests : Disconnect(r)

Spec == Init /\ [][Next]_vars

\* ------------------------------------- an upstream that can fall silent

\* `async for chunk in stream` waits for the next chunk of an upstream that
\* delivers no further delta and never signals the end of the stream.
\* generate_stream sets no deadline on the call or on the iteration, and
\* generate_response sets none on the adapter: nothing but the closing of
\* the generator ends the wait.
UpstreamStalls(r) ==
    /\ pc[r] = "iterating"
    /\ pc' = [pc EXCEPT ![r] = "starved"]
    /\ UNCHANGED << adapters, call, sse, ledgerVars, request, response, adapterVars,
                    full_content, assistant_message, stats, events, frames,
                    wrote, disconnected, overlap, aggregated >>

\* one request on its own
First == {1}

DeadlineNext ==
    \/ \E r \in First : Validate(r)
    \/ \E r \in First : ValidateKey(r)
    \/ \E r \in First : CreateUserMessage(r)
    \/ \E r \in First : OpenStream(r)
    \/ \E r \in First : OpenRaises(r)
    \/ \E r \in First : AdapterChunk(r)
    \/ \E r \in First : UpstreamStalls(r)
    \/ \E r \in First : AdapterEnd(r)
    \/ \E r \in First : AdapterFail(r)
    \/ \E r \in First : OnContent(r)
    \/ \E r \in First : CreateAssistantMessage(r)
    \/ \E r \in First : GetConversationStats(r)
    \/ \E r \in First : UpdateStats(r)
    \/ \E r \in First : YieldComplete(r)
    \/ \E r \in First : CreateErrorMessage(r)
    \/ \E r \in First : YieldError(r)
    \/ \E r \in First : Disconnect(r)

\* The provider keeps acting while it has something to do (a chunk, the end
\* of the stream, a failure), and the consumer keeps iterating; whether the
\* upstream falls silent, and whether the client goes away, is up to them.
DeadlineFairness ==
    \A r \in First :
        /\ WF_vars(AdapterChunk(r) \/ AdapterEnd(r) \/ AdapterFail(r))
        /\ WF_vars(OnContent(r))

DeadlineSpec == Init /\ [][DeadlineNext]_vars /\ DeadlineFairness

\* --------------------------------------- a Ledger whose calls can fail

\* the suspension points of the commit step: message_repo.create(assistant),
\* get_conversation_stats, update_stats, message_repo.create(error)
CommitSteps == {"on_complete", "read_stats", "update_stats", "on_error"}

\* faulty variant of LedgerFails: the exception leaves generate_response
LedgerFails_Escapes(r, at) ==
    /\ pc[r] = at
    /\ Release(r)
    /\ UNCHANGED << adapters, call, sse, ledgerVars, request, response,
                    assistant_message, events, frames, wrote, disconnected,
                    overlap, aggregated >>

\* The awaited repository call raises (the commit is refused, the
\* connection is lost): nothing is stored by it, and the exception is caught
\* by the except clause of generate_response, which yields an error frame.
LedgerFails(r, at) ==
    /\ pc[r] = at
    /\ frames' = [frames EXCEPT ![r] = Append(@, ErrorFrame("exception"))]
    /\ Release(r)
    /\ UNCHANGED << adapters, call, sse, ledgerVars, request, response,
                    assistant_message, events, wrote, disconnected,
                    overlap, aggregated >>

FailNext ==
    \/ DeadlineNext
    \/ \E r \in First : LedgerFails(r, "on_complete")
    \/ \E r \in First : LedgerFails(r, "read_stats")
    \/ \E r \in First : LedgerFails(r, "update_stats")
    \/ \E r \in First : LedgerFails(r, "on_error")

FailSpec == Init /\ [][FailNext]_vars

\* ----------------------------------- the registry, open to registration

\* register_adapter is a classmethod of AdapterFactory that any code of the
\* process can call at any time
RegistryNext ==
    \/ DeadlineNext
    \/ \E provider \in {"openai", "other"}, adapter \in Adapters :
          RegisterAdapter(provider, adapter)

RegistrySpec == Init /\ [][RegistryNext]_vars

\* --------------------------------------------- the pure functions, called

pipelineVars == << adapters, conversations, messages, pc, request, response,
                   content_chunks, usage, nchunks, full_content,
                   assistant_message, stats, events, frames, wrote,
                   disconnected, overlap, aggregated >>

\* token counts a call of calculate_cost is given
Tokens == {0, 1, 40, 100, 140, 1000}

RECURSIVE Chars(_)
\* a text of n characters
Chars(n) == IF n = 0 THEN "" ELSE "x" \o Chars(n - 1)

CostCalls ==
    { [ fn |-> "calculate_cost", ai_model |-> m, total_tokens |-> t,
        completion_tokens |-> c, done |-> FALSE, result |-> 0 ] :
      m \in DOMAIN model_pricing \cup {"custom-model"}, t \in Tokens, c \in Tokens }

EstimateCalls ==
    { [ fn |-> "estimate", full_len |-> a, prompt_len |-> b,
        done |-> FALSE, result |-> 0 ] :
      a \in 0..MaxTextLen, b \in 0..MaxTextLen }

\* the ends of streams: a generated text, a prompt, and the usage the
\* provider reported (NoUsage: none)
CompleteCalls ==
    { [ fn |-> "complete", full_len |-> a, prompt_len |-> b, reported |-> u,
        ai_model |-> "gpt-4o", done |-> FALSE,
        result |-> ErrorEvent("none", "gpt-4o") ] :
      a \in {0, 4, 8}, b \in {2, 8},
      u \in {NoUsage} \cup Usages \cup
            { [total_tokens |-> t, completion_tokens |-> c] : t \in {2, 3, 4}, c \in {1, 2} } }

FnInit ==
    /\ PipelineInit
    /\ sse = NoSse
    /\ call \in CostCalls \cup EstimateCalls \cup CompleteCalls

\* cost = self.calculate_cost(ai_model, total_tokens, completion_tokens)
CalculateCost ==
    /\ call.fn = "calculate_cost"
    /\ ~ call.done
    /\ call' = [call EXCEPT !.done = TRUE,
                            !.result = calculate_cost(call.ai_model, call.total_tokens,
                                                      call.completion_tokens)]
    /\ UNCHANGED << pipelineVars, sse >>

\* the end of a stream for which the provider reported no usage:
\* total_tokens is still 0, so the token counts are estimated from the
\* lengths of the generated text and of the prompt
EstimateTokens ==
    /\ call.fn = "estimate"
    /\ ~ call.done
    /\ call' = [call EXCEPT !.done = TRUE,
                            !.result = FinalUsage(<< Chars(call.full_len) >>, NoUsage,
                                                  call.prompt_len).total_tokens]
    /\ UNCHANGED << pipelineVars, sse >>

\* the end of a stream: final_metadata is built and yielded
FinalMetadata ==
    /\ call.fn = "complete"
    /\ ~ call.done
    /\ call' = [call EXCEPT !.done = TRUE,
                            !.result = CompleteEvent(<< Chars(call.full_len) >>, call.reported,
                                                     call.prompt_len, call.ai_model)]
    /\ UNCHANGED << pipelineVars, sse >>

FnNext ==
    \/ CalculateCost
    \/ EstimateTokens
    \/ FinalMetadata

FnSpec == FnInit /\ [][FnNext]_vars

\* ------------------------------------ the repositories, called directly

\* the value of the id sequence of the messages table: it counts the rows
\* ever created and does not go back when rows are deleted
RowsCreated == SumSeq([ r \in Requests |-> Len(wrote[r]) ])

\* MessageRepository.create
RepoCreate(r) ==
    /\ RowsCreated < MaxRows
    /\ ConvId \in DOMAIN conversations
    /\ \E role \in {"user", "assistant"}, token_count \in {0, 5} :
         LET row == [ NewMessage(messages, ConvId, role, "hi", token_count,
                                 NULL, 0, FALSE, NULL)
                      EXCEPT !.id = RowsCreated + 1,
                             !.created_at = RowsCreated + 1 ]
         IN  /\ messages' = Append(messages, row)
             /\ wrote' = [wrote EXCEPT ![r] = Append(@, row.id)]
    /\ UNCHANGED << adapters, call, sse, conversations, pc, request, response,
                    adapterVars, full_content, assistant_message, stats,
                    events, frames, disconnected, overlap, aggregated >>

\* MessageRepository.update_stats: the row with that id, if there is one,
\* gets a new token count and a new cost
RepoUpdateStats(message_id, token_count, cost_estimate) ==
    /\ messages' = [ i \in 1..Len(messages) |->
                       IF messages[i].id = message_id
                       THEN [messages[i] EXCEPT !.token_count = token_count,
                                                !.cost_estimate = cost_estimate]
                       ELSE messages[i] ]
    /\ UNCHANGED << adapters, call, sse, conversations, pc, request, response,
                    adapterVars, full_content, assistant_message, stats,
                    events, frames, wrote, disconnected, overlap, aggregated >>

\* MessageRepository.delete_by_conversation
RepoDeleteByConversation(conversation_id) ==
    /\ messages' = SelectSeq(messages, LAMBDA m : m.conversation_id # conversation_id)
    /\ UNCHANGED << adapters, call, sse, conversations, pc, request, response,
                    adapterVars, full_content, assistant_message, stats,
                    events, frames, wrote, disconnected, overlap, aggregated >>

\* ConversationRepository.delete: the conversation of that owner goes, and
\* its messages go with it (cascade="all, delete-orphan")
RepoDeleteConversation(conversation_id, user_id) ==
    /\ get_by_id(conversations, conversation_id, user_id) # {}
    /\ conversations' = [ c \in DOMAIN conversations \ {conversation_id} |->
                            conversations[c] ]
    /\ messages' = SelectSeq(messages, LAMBDA m : m.conversation_id # conversation_id)
    /\ UNCHANGED << adapters, call, sse, pc, request, response, adapterVars,
                    full_content, assistant_message, stats, events, frames,
                    wrote, disconnected, overlap, aggregated >>

RepoNext ==
    \/ \E r \in First : RepoCreate(r)
    \/ \E message_id \in 1..MaxRows : RepoUpdateStats(message_id, 7, 110000)
    \/ RepoDeleteByConversation(ConvId)
    \/ \E user_id \in Users : RepoDeleteConversation(ConvId, user_id)

RepoSpec == Init /\ [][RepoNext]_vars

\* --------------------------------------------------- SSEResponse, run

\* f"event: {event}\ndata: {data}\n\n"
SseFrame(event, data) ==
    [ lines |-> << "event", "data" >>, event |-> event, data |-> data ]

EstablishedFrame == SseFrame("message", [ text |-> "Connection established" ])

\* json.dumps({"content": content}) on the data line
ContentFrame(content) == SseFrame("message", [ content |-> content ])

StreamCompletedFrame == SseFrame("complete", [ text |-> "Stream completed" ])

\* json.dumps({"error": str(e)}) on the data line
StreamErrorFrame == SseFrame("error", [ error |-> "iterator failure" ])

\* what a content iterator delivers: some items, then it stops or raises
Scripts == UNION { [1..n -> Deltas] : n \in 0..MaxChunks }

SseInit ==
    /\ PipelineInit
    /\ call = NoCall
    /\ sse \in { [ pc |-> "created", script |-> sc, ending |-> e, item |-> "",
                   pulled |-> << >>, out |-> << >>, gone |-> FALSE,
                   answered |-> FALSE ] :
                 sc \in Scripts, e \in {"stop", "raise"} }

\* the first item of event_generator: the connection message
SseStart ==
    /\ sse.pc = "created"
    /\ sse' = [sse EXCEPT !.pc = "pull", !.out = Append(@, EstablishedFrame)]
    /\ UNCHANGED << pipelineVars, call >>

\* `async for content in self.content_iterator`: the next item is pulled;
\* the iterator delivers it, or is exhausted, or raises
SsePull ==
    /\ sse.pc = "pull"
    /\ IF sse.script # << >>
       THEN sse' = [sse EXCEPT !.pc = "check",
                               !.item = Head(sse.script),
                               !.script = Tail(sse.script),
                               !.pulled = Append(@, Head(sse.script))]
       ELSE IF sse.ending = "raise"
       THEN sse' = [sse EXCEPT !.pc = "raised"]
       ELSE sse' = [sse EXCEPT !.pc = "exhausted"]
    /\ UNCHANGED << pipelineVars, call >>

\* faulty variant of SseCheck: the loop is not left when the client is gone
SseCheck_NoBreak ==
    /\ sse.pc = "check"
    /\ IF sse.gone
       THEN sse' = [sse EXCEPT !.pc = "emit", !.answered = TRUE]
       ELSE sse' = [sse EXCEPT !.pc = "emit"]
    /\ UNCHANGED << pipelineVars, call >>

\* `if await request.is_disconnected(): break`
SseCheck ==
    /\ sse.pc = "check"
    /\ IF sse.gone
       THEN sse' = [sse EXCEPT !.pc = "exhausted", !.answered = TRUE]
       ELSE sse' = [sse EXCEPT !.pc = "emit"]
    /\ UNCHANGED << pipelineVars, call >>

\* the item is formatted and yielded
SseEmit ==
    /\ sse.pc = "emit"
    /\ sse' = [sse EXCEPT !.pc = "pull", !.out = Append(@, ContentFrame(sse.item))]
    /\ UNCHANGED << pipelineVars, call >>

\* after the loop: the completion message
SseComplete ==
    /\ sse.pc = "exhausted"
    /\ sse' = [sse EXCEPT !.pc = "done", !.out = Append(@, StreamCompletedFrame)]
    /\ UNCHANGED << pipelineVars, call >>

\* `except Exception as e`: the error message
SseError ==
    /\ sse.pc = "raised"
    /\ sse' = [sse EXCEPT !.pc = "done", !.out = Append(@, StreamErrorFrame)]
    /\ UNCHANGED << pipelineVars, call >>

\* the client goes away; request.is_disconnected() answers true from now on
ClientLeaves ==
    /\ sse.pc \notin {"unused", "done"}
    /\ ~ sse.gone
    /\ sse' = [sse EXCEPT !.gone = TRUE]
    /\ UNCHANGED << pipelineVars, call >>

SseNext ==
    \/ SseStart
    \/ SsePull
    \/ SseCheck
    \/ SseEmit
    \/ SseComplete
    \/ SseError
    \/ ClientLeaves

SseSpec == SseInit /\ [][SseNext]_vars

\* ------------------------------------------------- vocabulary of the claims

\* the rows a request created, in the order it created them
RowsOf(r) == [ i \in 1..Len(wrote[r]) |-> messages[wrote[r][i]] ]

UserRowsOf(r) == SelectSeq(RowsOf(r), LAMBDA m : m.role = "user")

\* the terminal Message of a request: its assistant row, error-flagged or not
TerminalRowsOf(r) == SelectSeq(RowsOf(r), LAMBDA m : m.role = "assistant")

ErrorRowsOf(r) == SelectSeq(RowsOf(r), LAMBDA m : m.is_error)

IsTerminalFrame(f) == f.type \in {"complete", "error"}

IsTerminalEvent(e) == e.metadata.type \in {"complete", "error"}

TerminalFrames(r) == SelectSeq(frames[r], IsTerminalFrame)

ChunkFrames(r) == SelectSeq(frames[r], LAMBDA f : f.type = "chunk")

RECURSIVE ConcatContent(_)
ConcatContent(fs) ==
    IF fs = << >> THEN "" ELSE Head(fs).content \o ConcatContent(Tail(fs))

LastFrame(r) == frames[r][Len(frames[r])]

\* the stream ran to its end with the client connected
Finished(r) == pc[r] = "closed" /\ ~ disconnected[r]

EndedWith(r, type) ==
    /\ events[r] # << >>
    /\ LastEvent(r).metadata.type = type

\* exactly one terminal element, and it is the last one
OneTerminalLast(seq, IsTerminal(_)) ==
    /\ seq # << >>
    /\ IsTerminal(seq[Len(seq)])
    /\ \A i \in 1..(Len(seq) - 1) : ~ IsTerminal(seq[i])

\* no session of the conversation is between writing its user Message and
\* closing
Quiescent == \A r \in Requests : pc[r] \notin Streaming

\* count and sums over the first k rows of the messages table
RECURSIVE LedgerSum(_, _)
LedgerSum(k, f) ==
    IF k = 0 THEN 0
    ELSE (IF messages[k].conversation_id = ConvId THEN messages[k][f] ELSE 0)
         + LedgerSum(k - 1, f)

LedgerCount(k) == Cardinality({ i \in 1..k : messages[i].conversation_id = ConvId })

AggregatesCover(k) ==
    /\ conversations[ConvId].message_count = LedgerCount(k)
    /\ conversations[ConvId].total_tokens = LedgerSum(k, "token_count")
    /\ conversations[ConvId].estimated_cost = LedgerSum(k, "cost_estimate")

\* ------------------------------------------------------------------ claims

\* C1 (as claimed): once the session of a validated request is closed, the
\* Ledger holds exactly one user Message and exactly one terminal Message
\* (assistant, error-flagged or not) of that request.
C1_OneUserOneTerminal ==
    \A r \in Requests :
        pc[r] = "closed" =>
            /\ Len(UserRowsOf(r)) = 1
            /\ Len(TerminalRowsOf(r)) = 1

\* C2 (as claimed): a stream that has ended carries exactly one terminal
\* element, as its last one, both in the frames given to the client and in
\* the events the adapter yielded.
C2_ExactlyOneTerminal ==
    \A r \in Requests :
        pc[r] = "closed" =>
            /\ OneTerminalLast(frames[r], IsTerminalFrame)
            /\ OneTerminalLast(events[r], IsTerminalEvent)

\* C3: whenever the adapter has been invoked for a request, and whenever a
\* chunk frame of it has been emitted, the user Message of the request is a
\* committed row of the Ledger.
C3_UserMessageFirst ==
    \A r \in Requests :
        (\/ pc[r] \in Streaming \ {"responding"}
         \/ events[r] # << >>
         \/ frames[r] # << >>)
        => /\ Len(UserRowsOf(r)) = 1
           /\ UserRowsOf(r)[1].content_hash = Sha256(request[r].message)
           /\ UserRowsOf(r)[1].conversation_id = request[r].conversation_id

C3_Witness ==
    \E r \in Requests :
        /\ pc[r] = "iterating"
        /\ Len(ChunkFrames(r)) >= 1
        /\ Len(UserRowsOf(r)) = 1

\* C4: a request that fails a pre-stream check ends with a synchronous
\* failure; the step that rejects it leaves the Ledger as it was, and the
\* request never has a row, an adapter event or a frame.
C4_RejectLeavesLedger ==
    [][ \A r \in Requests :
          pc'[r] = "rejected" =>
            /\ pc[r] \in {"new", "key_check", "rejected"}
            /\ (pc[r] # "rejected" => UNCHANGED ledgerVars)
            /\ response'[r].status_code \in {400, 403, 404, 500}
            /\ wrote'[r] = << >>
            /\ events'[r] = << >>
            /\ frames'[r] = << >> ]_vars

C4_Witness ==
    \E r \in Requests :
        /\ pc[r] = "rejected"
        /\ response[r].detail = "Invalid API key"
        /\ wrote[r] = << >>

\* C5 (as claimed): for a stream that ended with a complete frame, the
\* deltas sent to the client concatenate to the full text of the Complete
\* event, and the content of the stored assistant Message is that text.
C5_RoundTrip ==
    \A r \in Requests :
        (Finished(r) /\ EndedWith(r, "complete")) =>
            /\ ConcatContent(ChunkFrames(r)) = LastEvent(r).metadata.full_content
            /\ messages[assistant_message[r]].content = LastEvent(r).metadata.full_content

\* the requests that closed on Complete or on a provider Error event, or
\* were rejected
EndedAsClaimed(r) ==
    \/ pc[r] \in {"new", "key_check", "validated", "rejected"}
    \/ Finished(r) /\ (EndedWith(r, "complete") \/ EndedWith(r, "error"))

\* C6 (as claimed): at every quiescent point after requests that ended in
\* success, provider error or rejection, the aggregates equal the count and
\* the sums over all the stored Messages.
C6_AggregatesEqualSums ==
    (Quiescent /\ \A r \in Requests : EndedAsClaimed(r))
        => AggregatesCover(Len(messages))

\* C6 (amended): at every quiescent point after requests of which no two had
\* their streams open at once, the aggregates equal the count and the sums
\* over the Messages stored up to and including the assistant Message of the
\* last request whose commit step updated them (none: all zero); Messages
\* written since by failed requests are not counted.
C6_AggregatesAfterSuccess ==
    (Quiescent /\ ~ overlap) => AggregatesCover(aggregated)

C6_Witness ==
    /\ Quiescent
    /\ ~ overlap
    /\ aggregated >= 2
    /\ Len(messages) > aggregated
    /\ \A r \in Requests : pc[r] = "closed" /\ ~ disconnected[r]

\* C7 (as claimed): a reader never sees a stored non-error assistant Message
\* that the aggregates do not count, nor aggregates counting more Messages
\* than are stored.
C7_AtomicCommit ==
    /\ \A i \in 1..Len(messages) :
          (messages[i].role = "assistant" /\ ~ messages[i].is_error)
              => conversations[messages[i].conversation_id].message_count >= LedgerCount(i)
    /\ conversations[ConvId].message_count <= LedgerCount(Len(messages))

\* C8: when the adapter yields a terminal Error event and the client stays
\* connected, the stream ends with the error frame of that error as its only
\* terminal frame, and the request has written exactly one Message for the
\* failure: role assistant, is_error set.
C8_ProviderError ==
    \A r \in Requests :
        (Finished(r) /\ EndedWith(r, "error")) =>
            /\ LastFrame(r) = ErrorFrame(LastEvent(r).metadata.error)
            /\ Len(TerminalFrames(r)) = 1
            /\ Len(TerminalRowsOf(r)) = 1
            /\ TerminalRowsOf(r)[1].is_error
            /\ TerminalRowsOf(r)[1].error_type = "api_error"
            /\ Len(wrote[r]) = 2

C8_Witness ==
    \E r \in Requests :
        /\ Finished(r)
        /\ EndedWith(r, "error")
        /\ Len(ChunkFrames(r)) >= 1
        /\ Len(ErrorRowsOf(r)) = 1

\* C9: the aggregates and last_message_at change only in the update step of
\* a request that is handling a Complete event; no step of a failed
\* generation changes them.
C9_OnlyCompleteUpdates ==
    [][ conversations' # conversations =>
          \E r \in Requests :
              /\ pc[r] = "update_stats"
              /\ pc'[r] = "yield_complete"
              /\ EndedWith(r, "complete") ]_vars

C9_Witness ==
    /\ \E r \in Requests :
          /\ Finished(r)
          /\ EndedWith(r, "error")
          /\ Len(ErrorRowsOf(r)) = 1
    /\ conversations[ConvId].message_count = 0
    /\ conversations[ConvId].last_message_at = 0

\* C10 (as claimed): after a client disconnect the Ledger holds exactly one
\* error-flagged Message of the request, whose content is the text that had
\* been sent, and the aggregates were not changed by the request.
C10_DisconnectCommits ==
    \A r \in Requests :
        (pc[r] = "closed" /\ disconnected[r]) =>
            /\ Len(ErrorRowsOf(r)) = 1
            /\ Len(TerminalRowsOf(r)) = 1
            /\ ErrorRowsOf(r)[1].content = ConcatContent(ChunkFrames(r))

\* C11 (as claimed): a terminal frame (complete or error) is handed to the
\* client only when the terminal Message of the request is stored.
C11_TerminalMessageBeforeFrame ==
    \A r \in Requests :
        Len(TerminalFrames(r)) >= 1 => Len(TerminalRowsOf(r)) >= 1

\* C12 (as claimed): when the provider call of a request has failed (the
\* stream ended, the client connected, without a Complete event), the
\* adapter has yielded a terminal Error event.
C12_FailuresBecomeErrorEvents ==
    \A r \in Requests :
        (Finished(r) /\ ~ EndedWith(r, "complete")) => EndedWith(r, "error")

\* C13 (as claimed): every iteration of generate_stream that has begun
\* eventually yields a terminal Complete or Error event, unless the client
\* closes the stream first.
C13_EventuallyTerminal ==
    \A r \in First :
        (pc[r] = "iterating")
            ~> (\/ events[r] # << >> /\ IsTerminalEvent(LastEvent(r))
                \/ disconnected[r])

\* the frame generate_response makes of the adapter event e is f
Delivers(f, e) ==
    CASE e.metadata.type = "content"  -> f = ChunkFrame(e.content)
      [] e.metadata.type = "complete" -> /\ f.type = "complete"
                                         /\ f.cost = e.metadata.cost_estimate
      [] e.metadata.type = "error"    -> f = ErrorFrame(e.metadata.error)

\* the frames made of adapter events: all but the frame of the except
\* clause of generate_response, which stands for no event
EventFrames(r) == SelectSeq(frames[r], LAMBDA f : f # ErrorFrame("exception"))

\* C14: the frames of a request that stand for adapter events are, one for
\* one and in the same order, the frames of the first events the adapter
\* yielded: none twice, none out of order.
C14_InOrderAtMostOnce ==
    \A r \in Requests :
        /\ Len(EventFrames(r)) <= Len(events[r])
        /\ \A i \in 1..Len(EventFrames(r)) : Delivers(EventFrames(r)[i], events[r][i])

C14_Witness ==
    \E r \in Requests :
        /\ Finished(r)
        /\ EndedWith(r, "complete")
        /\ Len(frames[r]) = 3
        /\ frames[r][1] = ChunkFrame("a")
        /\ frames[r][2] = ChunkFrame("b")

\* the conversation the request names is none of the caller's: there is no
\* such conversation, or it is owned by another user
Foreign(r) ==
    \A c \in DOMAIN conversations :
        c # request[r].conversation_id \/ conversations[c].user_id # request[r].user

NeverStreamed(r) ==
    /\ pc[r] = "rejected"
    /\ wrote[r] = << >>
    /\ events[r] = << >>
    /\ frames[r] = << >>

\* every stored Message was written by a request of the owner of its
\* conversation
WrittenByOwner ==
    \A k \in 1..Len(messages) :
        \E r \in Requests :
            /\ \E i \in 1..Len(wrote[r]) : wrote[r][i] = k
            /\ conversations[messages[k].conversation_id].user_id = request[r].user

BadInput(r) == Foreign(r) \/ request[r].chars > MAX_MESSAGE_LENGTH

\* C16: a request with bad input is rejected with a synchronous response
\* and has no stream; validate_api_key and generate_stream are reached only
\* by requests with good input; a request of a permitted caller on an own
\* conversation with a message of exactly the maximum length is not turned
\* away for its length.
C16_BadInputBeforeProvider ==
    \A r \in Requests :
        /\ (pc[r] # "new" /\ BadInput(r)) =>
              /\ NeverStreamed(r)
              /\ response[r].status_code \in {400, 403, 404}
              /\ response[r].detail # "Invalid API key"
        /\ (pc[r] \in {"key_check", "validated", "closed"} \cup Streaming) => ~ BadInput(r)
        /\ ( /\ pc[r] = "rejected"
             /\ request[r].chars = MAX_MESSAGE_LENGTH
             /\ ~ Foreign(r)
             /\ CanCreateConversations(request[r].user) )
           => response[r].detail = "Invalid API key"

C16_Witness ==
    \E r, q \in Requests :
        /\ request[r].chars = MAX_MESSAGE_LENGTH
        /\ pc[r] = "iterating"
        /\ request[q].chars > MAX_MESSAGE_LENGTH
        /\ request[q].user = "alice"
        /\ pc[q] = "rejected"
        /\ response[q].detail = "Message too long"

\* C17: calculate_cost returns 0 for a model without a price; for a priced
\* model the cost of a call is not above the cost of any call with more
\* total tokens and the same completion tokens, nor of any call with more
\* completion tokens and the same total tokens.
C17_CostMonotone ==
    (call.fn = "calculate_cost" /\ call.done) =>
        IF call.ai_model \notin DOMAIN model_pricing
        THEN call.result = 0
        ELSE /\ \A t \in Tokens :
                  t >= call.total_tokens =>
                      calculate_cost(call.ai_model, t, call.completion_tokens) >= call.result
             /\ \A c \in Tokens :
                  c >= call.completion_tokens =>
                      calculate_cost(call.ai_model, call.total_tokens, c) >= call.result

C17_Witness ==
    /\ call.fn = "calculate_cost"
    /\ call.done
    /\ call.ai_model = "gpt-4o"
    /\ call.total_tokens = 140
    /\ call.completion_tokens = 40
    /\ call.result = 110000

WithinTolerance(estimate, full_len, prompt_len) ==
    LET d == 4 * estimate - (full_len + prompt_len)
    IN  4 * (IF d < 0 THEN 0 - d ELSE d) <= full_len + prompt_len

\* C19 (as claimed): for every length of the generated text and of the
\* prompt, the estimated total is within 25% of (full_len + prompt_len) / 4.
C19_EstimateWithinTolerance ==
    (call.fn = "estimate" /\ call.done) =>
        WithinTolerance(call.result, call.full_len, call.prompt_len)

\* C19 (amended): the estimated total never exceeds (full_len + prompt_len) / 4,
\* falls short of it by at most 1.5 tokens, and is within 25% of it when the
\* two texts have 24 characters or more between them.
C19_EstimateWithinToleranceFrom24 ==
    (call.fn = "estimate" /\ call.done) =>
        /\ 4 * call.result <= call.full_len + call.prompt_len
        /\ call.full_len + call.prompt_len - 4 * call.result <= 6
        /\ (call.full_len + call.prompt_len >= 24) =>
              WithinTolerance(call.result, call.full_len, call.prompt_len)

C19_Witness ==
    /\ call.fn = "estimate"
    /\ call.done
    /\ call.full_len = 11
    /\ call.prompt_len = 13
    /\ call.result = 5

\* the three payloads, by their keys
PayloadShape(payload) ==
    \/ payload.type = "chunk" /\ DOMAIN payload = {"content", "type"}
    \/ payload.type = "complete" /\ DOMAIN payload = {"type", "message_id", "cost"}
    \/ payload.type = "error" /\ DOMAIN payload = {"type", "error"}

\* C20 (as claimed): every frame written to the client is an event line, a
\* data line and a blank line, and the JSON object of its data line is a
\* chunk, a complete or an error payload.
C20_FrameForm ==
    \A r \in Requests :
        \A i \in 1..Len(frames[r]) :
            /\ Wire(frames[r][i]).lines = << "event", "data" >>
            /\ PayloadShape(Wire(frames[r][i]).data)

IsFinalSseFrame(f) == f.event \in {"complete", "error"}

\* the frames of an SSEResponse between the connection message and the
\* final frame
SseContentFrames ==
    SelectSeq(sse.out, LAMBDA f : f # EstablishedFrame /\ ~ IsFinalSseFrame(f))

\* C30: the connection message comes first; the content frames are, in
\* order and one for one, the frames of the first items pulled; a finished
\* run has exactly one final frame, as its last, which is the error frame if
\* the iterator raised and the completion frame otherwise; once
\* is_disconnected() has answered true nothing more is pulled and the item
\* pulled just before has no frame.
C30_SseFraming ==
    sse.pc # "unused" =>
        /\ (sse.pc # "created") => (sse.out # << >> /\ sse.out[1] = EstablishedFrame)
        /\ \A i \in 2..Len(sse.out) : sse.out[i] # EstablishedFrame
        /\ Len(SseContentFrames) <= Len(sse.pulled)
        /\ \A i \in 1..Len(SseContentFrames) :
              /\ SseContentFrames[i] = ContentFrame(sse.pulled[i])
              /\ sse.out[i + 1] = SseContentFrames[i]
        /\ (sse.pc # "done") => \A i \in 1..Len(sse.out) : ~ IsFinalSseFrame(sse.out[i])
        /\ (sse.pc = "done") =>
              /\ OneTerminalLast(sse.out, IsFinalSseFrame)
              /\ sse.out[Len(sse.out)] =
                    IF sse.script = << >> /\ sse.ending = "raise" /\ ~ sse.answered
                    THEN StreamErrorFrame
                    ELSE StreamCompletedFrame
        /\ sse.answered =>
              /\ sse.pc \in {"exhausted", "done"}
              /\ Len(SseContentFrames) = Len(sse.pulled) - 1

C30_Witness ==
    /\ sse.pc = "done"
    /\ sse.answered
    /\ sse.pulled = << "a", "b" >>
    /\ sse.script = << >>
    /\ sse.ending = "raise"
    /\ sse.out = << EstablishedFrame, ContentFrame("a"), StreamCompletedFrame >>

\* C21 (as claimed): no step of a repository edits or removes a stored
\* Message: every row of the messages table is a row of it after the step.
C21_AppendOnly ==
    [][ \A i \in 1..Len(messages) :
          \E j \in 1..Len(messages') : messages'[j] = messages[i] ]_vars

\* how far a request has come: before the call of generate_stream, at it,
\* in the iteration, handling the terminal event, ended
Stage(p) ==
    CASE p \in {"new", "key_check", "validated"}        -> 0
      [] p = "responding"                               -> 1
      [] p \in {"iterating", "starved", "on_content"}   -> 2
      [] p \in {"on_complete", "read_stats", "update_stats", "yield_complete",
                "on_error", "yield_error"}              -> 3
      [] p \in {"closed", "rejected"}                   -> 4

\* a generation that failed with the client connected ended with an error
\* frame, its only terminal frame
FailureSurfaced ==
    \A r \in Requests :
        (Finished(r) /\ ~ EndedWith(r, "complete")) =>
            /\ OneTerminalLast(frames[r], IsTerminalFrame)
            /\ LastFrame(r).type = "error"

\* C22: a request comes to the call of generate_stream once, from
\* validation, and enters the iteration once, from that call; it never goes
\* back to an earlier stage; after a terminal event the adapter yields
\* nothing more; a failed generation ends with the error frame.
C22_NoRetry ==
    [][ /\ \A r \in Requests :
             /\ Stage(pc'[r]) >= Stage(pc[r])
             /\ (pc'[r] = "responding" /\ pc[r] # "responding") => pc[r] = "validated"
             /\ (Stage(pc'[r]) = 2 /\ Stage(pc[r]) # 2) => pc[r] = "responding"
             /\ (events[r] # << >> /\ IsTerminalEvent(LastEvent(r)))
                   => events'[r] = events[r]
        /\ FailureSurfaced' ]_vars

C22_Witness ==
    \E r \in Requests :
        /\ Finished(r)
        /\ EndedWith(r, "error")
        /\ Len(events[r]) = 3
        /\ LastFrame(r) = ErrorFrame("upstream failure")

\* C23 (as claimed): once a request has been served, no step changes the
\* adapter registry.
C23_RegistryFrozen ==
    [][ (\E r \in Requests : pc[r] \in {"closed", "rejected"})
            => adapters' = adapters ]_vars

\* C24 (as claimed): a session that ended on an exception of the adapter
\* call or iteration has written one error-flagged assistant Message before
\* its error frame.
C24_ExceptionCommitsError ==
    \A r \in Requests :
        (\E i \in 1..Len(frames[r]) : frames[r][i] = ErrorFrame("exception")) =>
            /\ Len(ErrorRowsOf(r)) = 1
            /\ ErrorRowsOf(r)[1].role = "assistant"

\* C25: when a Ledger call of the commit step fails with the client
\* connected, the step ends the session with an error frame, which is the
\* only terminal frame of the stream and its last frame; a closed session
\* stays closed and gets no further frame.
C25_CommitFailureHandled ==
    [][ \A r \in Requests :
          /\ (pc[r] \in CommitSteps /\ pc'[r] = "closed" /\ ~ disconnected'[r])
             => /\ frames'[r] = Append(frames[r], ErrorFrame("exception"))
                /\ OneTerminalLast(frames'[r], IsTerminalFrame)
          /\ pc[r] = "closed" => (pc'[r] = "closed" /\ frames'[r] = frames[r])
      ]_vars

C25_Witness ==
    \E r \in Requests :
        /\ Finished(r)
        /\ EndedWith(r, "complete")
        /\ assistant_message[r] # 0
        /\ aggregated = 0
        /\ Len(frames[r]) = 2
        /\ LastFrame(r) = ErrorFrame("exception")

\* C26: the session's step after a Content event hands the chunk frame of
\* that event to the transport and writes nothing to the Ledger; when the
\* adapter yields its next event, every earlier event has its frame.
C26_NoBatching ==
    [][ \A r \in Requests :
          /\ (pc[r] = "on_content" /\ pc'[r] = "iterating")
             => /\ frames'[r] = Append(frames[r], ChunkFrame(LastEvent(r).content))
                /\ UNCHANGED ledgerVars
          /\ (events'[r] # events[r])
             => Len(EventFrames(r)) = Len(events[r]) ]_vars

C26_Witness ==
    \E r \in Requests :
        /\ pc[r] = "on_content"
        /\ Len(events[r]) = 2
        /\ Len(frames[r]) = 1

\* C27: the aggregates are at all times the count and the sums over the
\* Messages that were stored when some session read the statistics: over
\* the first k rows, for some k.  Nothing orders the update of one session
\* after the read of another, so k can be behind the table when all
\* sessions are closed (reached in C27_Witness).
C27_AggregatesAreSomePrefix ==
    \E k \in 0..Len(messages) : AggregatesCover(k)

C27_Witness ==
    /\ \A r \in Requests : Finished(r) /\ EndedWith(r, "complete")
    /\ overlap
    /\ Len(messages) = 4
    /\ ~ AggregatesCover(Len(messages))
    /\ AggregatesCover(3)

\* C28 (as claimed): the Complete event of a stream whose usage was
\* estimated differs from the Complete event of a stream with the same text
\* and prompt whose provider reported those very numbers; and numbers the
\* provider reported are the numbers of the Complete event.
C28_EstimateDistinguishable ==
    (call.fn = "complete" /\ call.done) =>
        LET chunks == << Chars(call.full_len) >>
            estimate == FinalUsage(chunks, NoUsage, call.prompt_len)
        IN  /\ (call.reported = NoUsage /\ estimate.total_tokens > 0)
                  => call.result # CompleteEvent(chunks, estimate, call.prompt_len,
                                                 call.ai_model)
            /\ (call.reported # NoUsage)
                  => /\ call.result.metadata.total_tokens = call.reported.total_tokens
                     /\ call.result.metadata.completion_tokens
                            = call.reported.completion_tokens

\* the non-error assistant Messages a request has stored
OkRowsOf(r) == SelectSeq(RowsOf(r), LAMBDA m : m.role = "assistant" /\ ~ m.is_error)

GotFrame(r, type) == \E i \in 1..Len(frames[r]) : frames[r][i].type = type

\* C29 (as claimed): for a session closed with the client connected, the
\* client got a complete frame exactly if a non-error assistant Message of
\* the request is stored (the frame names that Message, and the aggregates
\* count it), and an error frame exactly if none is stored.
C29_FrameAgreesWithLedger ==
    \A r \in Requests :
        Finished(r) =>
            /\ GotFrame(r, "complete") <=> Len(OkRowsOf(r)) = 1
            /\ GotFrame(r, "complete") =>
                  /\ LastFrame(r).message_id = OkRowsOf(r)[1].id
                  /\ conversations[ConvId].message_count >= LedgerCount(OkRowsOf(r)[1].id)
            /\ GotFrame(r, "error") <=> Len(OkRowsOf(r)) = 0

====
